---------------------------- MODULE Spec2Model ----------------------------
(***************************************************************************)
(* A model of langflow's processing/process.py: tweak application          *)
(* (validate_input, apply_tweaks, process_tweaks), memory reconciliation   *)
(* (fix_memory_inputs), execution (get_result_and_thought, format_actions) *)
(* and loading (load_flow_from_json).                                      *)
(*                                                                         *)
(* Python values are records; an attribute that hasattr() may find absent  *)
(* is a has_* flag beside the value.  An exception is a record             *)
(* [type, desc] and a function that may raise returns a record with a      *)
(* raised flag.                                                            *)
(***************************************************************************)
EXTENDS Naturals, Integers, Sequences, FiniteSets, TLC

VARIABLES
    \* process_tweaks
    graph_data,         \* the description handed to process_tweaks
    tweaks,             \* the tweak map handed to process_tweaks
    tweak_result,       \* what process_tweaks did: raised or the description
    tweak_pc,           \* "idle" | "ready" | "done"
    \* fix_memory_inputs / get_result_and_thought
    langchain_object,   \* the pipeline handle
    policy,             \* get_memory_key as a function of the memory key
    mem_applied,        \* how many times fix_memory_inputs has been applied
    mem_first,          \* the handle after the first application
    mem_raised,         \* the exception fix_memory_inputs raised, or NoExc
    exec_result,        \* the outcome of get_result_and_thought
    exec_pc,            \* "idle" | "ready" | "done"
    \* concurrent get_result_and_thought calls sharing sys.stdout
    sys_stdout,         \* what sys.stdout refers to: "orig" or a buffer owner
    old_targets,        \* redirect_stdout._old_targets of each invocation
    output_buffer,      \* the StringIO of each invocation: a sequence of writers
    closed,             \* whether each invocation's StringIO is closed
    conc_pc,            \* the position of each invocation
    prints,             \* how many times each invocation's pipeline printed
    thought,            \* the thought of each invocation
    conc_error,         \* whether an invocation's pipeline call raised
    orig_stream,        \* what reached the original stream
    \* load_flow_from_json
    load_input,         \* the source handed to load_flow_from_json
    load_tweaks,        \* its tweaks argument
    load_build,         \* its build argument
    load_result,        \* the outcome of the call
    load_pc             \* "idle" | "ready" | "done"

tweak_vars == <<graph_data, tweaks, tweak_result, tweak_pc>>
mem_vars   == <<langchain_object, policy, mem_applied, mem_first, mem_raised>>
exec_vars  == <<exec_result, exec_pc>>
conc_vars  == <<sys_stdout, old_targets, output_buffer, closed, conc_pc, prints,
                thought, conc_error, orig_stream>>
load_vars  == <<load_input, load_tweaks, load_build, load_result, load_pc>>
vars == <<tweak_vars, mem_vars, exec_vars, conc_vars, load_vars>>

(***************************************************************************)
(* Bounds                                                                  *)
(***************************************************************************)
MaxNodes == 2       \* nodes in a description handed to process_tweaks
MaxTweaks == 2      \* (node id, parameter name) pairs in a tweak map
MaxKeys == 2        \* declared input keys of a handle
MaxApply == 2       \* consecutive applications of fix_memory_inputs
NumInvocations == 2 \* concurrent get_result_and_thought calls
MaxPrints == 2      \* writes to sys.stdout by one invocation's pipeline

(***************************************************************************)
(* Python values and exceptions                                            *)
(***************************************************************************)
\* n is the number itself, 0/1 for a bool, and the length of a str or list
PyInt(n)  == [type |-> "int", n |-> n]
PyBool(b) == [type |-> "bool", n |-> IF b THEN 1 ELSE 0]
PyStr(n)  == [type |-> "str", n |-> n]
PyList(n) == [type |-> "list", n |-> n]

\* bool(v): a number is true when non-zero, a str or list when non-empty
Truthy(v) == v.n # 0

NoExc == [type |-> "none", desc |-> ""]
Exc(t, d) == [type |-> t, desc |-> d]

(***************************************************************************)
(* Graph descriptions and tweak maps                                       *)
(***************************************************************************)
NodeIds == {"a", "b"}
TweakNames == {"temperature", "model"}
TweakValues == {PyInt(0), PyBool(FALSE), PyStr(0), PyList(0), PyInt(9)}
OrigValue == PyStr(2)

\* where node.get("data", {}).get("node", {}).get("template") breaks, if it does:
\* *_missing is an absent key, *_bad a value that is not a mapping
PathKinds == {"ok", "data_missing", "data_bad", "node_missing", "node_bad",
              "template_missing", "template_bad"}

Templates == UNION {[D -> {[value |-> OrigValue]}] : D \in SUBSET TweakNames}
NoTemplate == [x \in {} |-> [value |-> OrigValue]]

Node(isDict, idKind, id, path, template) ==
    [isDict |-> isDict, idKind |-> idKind, id |-> id, path |-> path,
     template |-> template]

NodeShapes ==
    {Node(FALSE, "missing", "", "ok", NoTemplate)}
    \cup {Node(TRUE, k, "", "ok", [nm \in TweakNames |-> [value |-> OrigValue]])
            : k \in {"missing", "nonstr"}}
    \cup {Node(TRUE, "str", id, "ok", t) : id \in NodeIds, t \in Templates}
    \cup {Node(TRUE, "str", id, p, NoTemplate)
            : id \in NodeIds, p \in PathKinds \ {"ok"}}

HasStrId(node) == node.isDict /\ node.idKind = "str"
WellShaped(node) == HasStrId(node) /\ node.path = "ok"

\* every node id is unique within a description
UniqueIds(nodes) ==
    \A i, j \in 1..Len(nodes) :
        (i # j /\ HasStrId(nodes[i]) /\ HasStrId(nodes[j]))
            => nodes[i].id # nodes[j].id

NodeLists(max) ==
    {nodes \in UNION {[1..k -> NodeShapes] : k \in 0..max} : UniqueIds(nodes)}

\* a description: "top" keeps its nodes under 'nodes', "under_data" under
\* data.nodes, "no_nodes" nowhere; "data_bad" has a 'data' that is not a
\* mapping and "not_dict" is not a mapping itself
Description(shape, nodes) == [shape |-> shape, nodes |-> nodes]
GraphDatas(max) ==
    {Description(s, nodes) : s \in {"top", "under_data"}, nodes \in NodeLists(max)}
    \cup {Description(s, <<>>) : s \in {"no_nodes", "data_bad", "not_dict"}}

\* a tweak map: node id -> (parameter name -> value), built from at most max
\* (node id, parameter name) pairs
TweakKeys == NodeIds \X TweakNames
TweakDict(f) ==
    [isDict |-> TRUE,
     map |-> [id \in {k[1] : k \in DOMAIN f} |->
                [nm \in {k[2] : k \in {kk \in DOMAIN f : kk[1] = id}} |->
                    f[<<id, nm>>]]]]
TweakMaps(max) ==
    {TweakDict(f) : f \in UNION {[K -> TweakValues]
                        : K \in {S \in SUBSET TweakKeys : Cardinality(S) <= max}}}
NotADict == [isDict |-> FALSE, map |-> <<>>]

(***************************************************************************)
(* validate_input, apply_tweaks, process_tweaks                            *)
(***************************************************************************)
\* validate_input without the isinstance check of tweaks: a variant the
\* properties of load_flow_from_json must tell from validate_input
validate_input_unchecked(gd, tw) ==
    IF gd.shape = "not_dict"
    THEN [raised |-> TRUE, nodes |-> <<>>,
          exc |-> Exc("ValueError", "graph_data and tweaks should be dictionaries")]
    ELSE IF gd.shape = "data_bad"
    THEN [raised |-> TRUE, nodes |-> <<>>, exc |-> Exc("AttributeError", "get")]
    ELSE IF gd.shape = "no_nodes"
          \/ (gd.shape = "under_data" /\ gd.nodes = <<>>)
    THEN [raised |-> TRUE, nodes |-> <<>>,
          exc |-> Exc("ValueError", "graph_data should contain a list of nodes")]
    ELSE [raised |-> FALSE, nodes |-> gd.nodes, exc |-> NoExc]

\* graph_data.get("data", {}).get("nodes") or graph_data.get("nodes")
validate_input(gd, tw) ==
    IF gd.shape = "not_dict" \/ ~tw.isDict
    THEN [raised |-> TRUE, nodes |-> <<>>,
          exc |-> Exc("ValueError", "graph_data and tweaks should be dictionaries")]
    ELSE IF gd.shape = "data_bad"
    THEN [raised |-> TRUE, nodes |-> <<>>, exc |-> Exc("AttributeError", "get")]
    ELSE IF gd.shape = "no_nodes"
          \/ (gd.shape = "under_data" /\ gd.nodes = <<>>)
    THEN [raised |-> TRUE, nodes |-> <<>>,
          exc |-> Exc("ValueError", "graph_data should contain a list of nodes")]
    ELSE [raised |-> FALSE, nodes |-> gd.nodes, exc |-> NoExc]

\* the assignments of apply_tweaks' loop: a pair is applied when its name and
\* its value are truthy and the name is a key of the template
ApplicablePair(template, node_tweaks, nm) ==
    /\ nm \in DOMAIN node_tweaks
    /\ nm # ""
    /\ Truthy(node_tweaks[nm])
    /\ nm \in DOMAIN template

apply_tweaks(node, node_tweaks) ==
    IF node.path \in {"data_bad", "node_bad"}
    THEN [raised |-> TRUE, exc |-> Exc("AttributeError", "get"),
          warned |-> FALSE, node |-> node]
    ELSE IF node.path # "ok"
    THEN [raised |-> FALSE, exc |-> NoExc, warned |-> TRUE, node |-> node]
    ELSE [raised |-> FALSE, exc |-> NoExc, warned |-> FALSE,
          node |-> [node EXCEPT !.template =
                        [nm \in DOMAIN node.template |->
                            IF ApplicablePair(node.template, node_tweaks, nm)
                            THEN [value |-> node_tweaks[nm]]
                            ELSE node.template[nm]]]]

\* tweaks.get(node_id) is falsy when the id has no entry or an empty one
HasNodeTweaks(tw, id) == id \in DOMAIN tw.map /\ DOMAIN tw.map[id] # {}

\* the loop of process_tweaks from node i on; acc is the list as mutated so
\* far and warned the indexes a warning was logged for
RECURSIVE tweak_loop(_, _, _, _)
tweak_loop(acc, tw, i, warned) ==
    IF i > Len(acc)
    THEN [raised |-> FALSE, exc |-> NoExc, nodes |-> acc, warned |-> warned]
    ELSE IF ~HasStrId(acc[i])
    THEN tweak_loop(acc, tw, i + 1, warned \cup {i})
    ELSE IF ~HasNodeTweaks(tw, acc[i].id)
    THEN tweak_loop(acc, tw, i + 1, warned)
    ELSE LET r == apply_tweaks(acc[i], tw.map[acc[i].id])
         IN  IF r.raised
             THEN [raised |-> TRUE, exc |-> r.exc, nodes |-> acc,
                   warned |-> warned]
             ELSE tweak_loop([acc EXCEPT ![i] = r.node], tw, i + 1,
                             IF r.warned THEN warned \cup {i} ELSE warned)

process_tweaks(gd, tw) ==
    LET v == validate_input(gd, tw)
    IN  IF v.raised
        THEN [raised |-> TRUE, exc |-> v.exc, graph |-> gd, warned |-> {}]
        ELSE LET r == tweak_loop(v.nodes, tw, 1, {})
             IN  [raised |-> r.raised, exc |-> r.exc,
                  graph |-> [gd EXCEPT !.nodes = r.nodes],
                  warned |-> r.warned]

(***************************************************************************)
(* Pipeline handles                                                        *)
(***************************************************************************)
Keys == {"chat_history", "history", "input"}
NONE == "<None>"

\* the declared input names a handle may carry in input_variables or in
\* prompt.input_variables
NameSets == {{}, {"input"}, {"history", "input"}}

\* sequences of distinct keys, at most max long
KeySeqs(max) ==
    {s \in UNION {[1..k -> Keys] : k \in 0..max} :
        \A i, j \in 1..Len(s) : i # j => s[i] # s[j]}

\* memory: "absent" (no attribute), "none" (None) or "present"; a present
\* memory may lack its memory_key.  A prompt may lack input_variables.
Handle(hv, mem, hmk, mk, hiv, iv, hp, phiv, piv, hik, ik, hris, hok, ok, hrun) ==
    [has_verbose |-> hv, verbose |-> FALSE,
     memory |-> mem, has_memory_key |-> hmk, memory_key |-> mk,
     has_input_variables |-> hiv, input_variables |-> iv,
     has_prompt |-> hp, prompt_has_input_variables |-> phiv,
     prompt_input_variables |-> piv,
     has_input_keys |-> hik, input_keys |-> ik,
     has_return_intermediate_steps |-> hris, return_intermediate_steps |-> TRUE,
     has_output_keys |-> hok, output_keys |-> ok,
     has_run |-> hrun]

\* the memory of a handle: absent, None, without a key, or with one
MemoryShapes ==
    {<<"absent", FALSE, "">>, <<"none", FALSE, "">>, <<"present", FALSE, "">>}
    \cup {<<"present", TRUE, k>> : k \in Keys}

\* where the declared input names come from: input_variables, else the
\* prompt's, else input_keys; an attribute the code never reads for a handle
\* is left at one value
NameSources ==
    {<<TRUE, iv, FALSE, FALSE, {}>> : iv \in NameSets}
    \cup {<<FALSE, {}, TRUE, TRUE, piv>> : piv \in NameSets}
    \cup {<<FALSE, {}, TRUE, FALSE, {}>>, <<FALSE, {}, FALSE, FALSE, {}>>}

InputKeyShapes(max) ==
    {<<FALSE, <<>>>>} \cup {<<TRUE, s>> : s \in KeySeqs(max)}

OutputKeyShapes == {<<FALSE, <<>>>>, <<TRUE, <<>>>>, <<TRUE, <<"text">>>>}

HasMemory(h) == h.memory = "present"

(***************************************************************************)
(* get_memory_key, update_memory_keys (langflow.interface.run) and         *)
(* fix_memory_inputs                                                       *)
(***************************************************************************)
Policies == [Keys -> Keys \cup {NONE}]

\* deriveMemoryKey(handle) -> key | null
get_memory_key(h, pol) == pol[h.memory_key]

\* rewrite the handle's memory key
update_memory_keys(h, key) == [h EXCEPT !.memory_key = key]

\* lines 37-39
derive_and_update(h, pol) ==
    LET possible_new_mem_key == get_memory_key(h, pol)
    IN  IF possible_new_mem_key # NONE
        THEN [raised |-> FALSE, exc |-> NoExc,
              obj |-> update_memory_keys(h, possible_new_mem_key)]
        ELSE [raised |-> FALSE, exc |-> NoExc, obj |-> h]

AttrError(h, attr) ==
    [raised |-> TRUE, exc |-> Exc("AttributeError", attr), obj |-> h]

\* lines 29-35: the handler of the AttributeError raised in the try
fix_memory_except(h, pol) ==
    IF h.has_prompt /\ ~h.prompt_has_input_variables
    THEN AttrError(h, "input_variables")
    ELSE IF ~h.has_prompt /\ ~h.has_input_keys
    THEN AttrError(h, "input_keys")
    ELSE LET input_variables ==
                 IF h.has_prompt THEN h.prompt_input_variables
                 ELSE {h.input_keys[i] : i \in 1..Len(h.input_keys)}
         IN  IF ~h.has_memory_key
             THEN AttrError(h, "memory_key")
             ELSE IF h.memory_key \in input_variables
             THEN [raised |-> FALSE, exc |-> NoExc, obj |-> h]
             ELSE derive_and_update(h, pol)

fix_memory_inputs(h, pol) ==
    IF ~HasMemory(h)
    THEN [raised |-> FALSE, exc |-> NoExc, obj |-> h]
    ELSE IF ~h.has_memory_key \/ ~h.has_input_variables
    THEN fix_memory_except(h, pol)
    ELSE IF h.memory_key \in h.input_variables
    THEN [raised |-> FALSE, exc |-> NoExc, obj |-> h]
    ELSE derive_and_update(h, pol)

(***************************************************************************)
(* format_actions                                                          *)
(***************************************************************************)
\* a step is an (action, answer) pair; log_has_action says whether "Action"
\* occurs in action.log.  The result is the list of lines joined by "\n".
Step(b) == [log_has_action |-> b]

RECURSIVE format_actions(_)
format_actions(actions) ==
    IF actions = <<>> THEN <<>>
    ELSE (IF ~Head(actions).log_has_action
          THEN <<"Log", "Tool", "Tool Input", "Answer", "">>
          ELSE <<"Log", "Answer", "">>)
         \o format_actions(Tail(actions))

(***************************************************************************)
(* get_result_and_thought                                                  *)
(***************************************************************************)
Message == "hello"
Unset == "<unset>"
UnsetThought == <<"<unset>">>

\* what an invocation returns: a value that is no mapping, or a mapping that
\* may hold the first output key and an 'intermediate_steps' entry (absent,
\* a list of steps, or "malformed": something format_actions cannot unpack)
Plain(v) == [is_dict |-> FALSE, value |-> v, has_key |-> FALSE,
             steps_kind |-> "absent", steps |-> <<>>]
Mapping(v, hk, sk, st) == [is_dict |-> TRUE, value |-> v, has_key |-> hk,
                           steps_kind |-> sk, steps |-> st]
StepsShapes == {<<"absent", <<>>>>, <<"list", <<>>>>, <<"list", <<Step(FALSE)>>>>,
                <<"list", <<Step(TRUE)>>>>, <<"malformed", <<>>>>}
Outputs(v) ==
    {Plain(v)} \cup {Mapping(v, hk, s[1], s[2]) : hk \in BOOLEAN, s \in StepsShapes}

\* what the pipeline does when invoked: how the call ends, how run ends,
\* what each returns, and whether assigning a flag on the handle raises
Env(ce, co, re, ro, tf) ==
    [call_end |-> ce, call_out |-> co, run_end |-> re, run_out |-> ro,
     toggle_fails |-> tf]
Envs ==
    {Env("ok", co, "ok", Plain("run_value"), FALSE) : co \in Outputs("call_value")}
    \cup {Env("ok", Plain("call_value"), "ok", Plain("run_value"), TRUE)}
    \cup {Env("ValueError", Plain("call_value"), "ok", ro, FALSE)
        : ro \in Outputs("run_value")}
    \cup {Env(ce, Plain("call_value"), re, Plain("run_value"), FALSE)
        : ce \in {"ValueError", "Exception"}, re \in {"ValueError", "Exception"}}

NoInput == [kind |-> "none", key |-> "", value |-> ""]

\* lines 68-73: the last declared key that is neither the memory key nor
\* "chat_history" wins; with no such key chat_input stays None
RECURSIVE input_loop(_, _, _, _)
input_loop(keys, memory_key, message, chat_input) ==
    IF keys = <<>> THEN chat_input
    ELSE input_loop(Tail(keys), memory_key, message,
                    IF Head(keys) \notin {memory_key, "chat_history"}
                    THEN [kind |-> "dict", key |-> Head(keys), value |-> message]
                    ELSE chat_input)

\* the loop leaving at the first key that passes: a variant the properties
\* of the input must tell from build_chat_input
RECURSIVE input_loop_first(_, _, _)
input_loop_first(keys, memory_key, message) ==
    IF keys = <<>> THEN NoInput
    ELSE IF Head(keys) \notin {memory_key, "chat_history"}
    THEN [kind |-> "dict", key |-> Head(keys), value |-> message]
    ELSE input_loop_first(Tail(keys), memory_key, message)

build_chat_input_first(h, memory_key, message) ==
    IF h.has_input_keys
    THEN input_loop_first(h.input_keys, memory_key, message)
    ELSE [kind |-> "str", key |-> "", value |-> message]

build_chat_input(h, memory_key, message) ==
    IF h.has_input_keys
    THEN input_loop(h.input_keys, memory_key, message, NoInput)
    ELSE [kind |-> "str", key |-> "", value |-> message]

Call(op, input, end) == [op |-> op, input |-> input, end |-> end]

\* run tried after any failure of the call (except Exception instead of
\* except ValueError): a variant the properties of the fallback must tell
\* from invoke
invoke_any_error(h, env, chat_input) ==
    LET first == Call("call", chat_input, env.call_end)
    IN  IF env.call_end = "ok"
        THEN [raised |-> FALSE, exc |-> NoExc, output |-> env.call_out,
              calls |-> <<first>>]
        ELSE IF ~h.has_run
        THEN [raised |-> TRUE, exc |-> Exc("AttributeError", "run"),
              output |-> env.call_out, calls |-> <<first>>]
        ELSE LET second == Call("run", chat_input, env.run_end)
             IN  IF env.run_end = "ok"
                 THEN [raised |-> FALSE, exc |-> NoExc, output |-> env.run_out,
                       calls |-> <<first, second>>]
                 ELSE [raised |-> TRUE,
                       exc |-> Exc(env.run_end, "run failed"),
                       output |-> env.run_out, calls |-> <<first, second>>]

\* lines 84-92: the call, and run after a ValueError
invoke(h, env, chat_input) ==
    LET first == Call("call", chat_input, env.call_end)
    IN  IF env.call_end = "ok"
        THEN [raised |-> FALSE, exc |-> NoExc, output |-> env.call_out,
              calls |-> <<first>>]
        ELSE IF env.call_end # "ValueError"
        THEN [raised |-> TRUE, exc |-> Exc("Exception", "call failed"),
              output |-> env.call_out, calls |-> <<first>>]
        ELSE IF ~h.has_run
        THEN [raised |-> TRUE, exc |-> Exc("AttributeError", "run"),
              output |-> env.call_out, calls |-> <<first>>]
        ELSE LET second == Call("run", chat_input, env.run_end)
             IN  IF env.run_end = "ok"
                 THEN [raised |-> FALSE, exc |-> NoExc, output |-> env.run_out,
                       calls |-> <<first, second>>]
                 ELSE [raised |-> TRUE,
                       exc |-> Exc(env.run_end, "run failed"),
                       output |-> env.run_out, calls |-> <<first, second>>]

\* lines 94-106: the result is read before the thought
normalize(h, output, captured) ==
    IF ~output.is_dict
    THEN [raised |-> FALSE, exc |-> NoExc, result |-> output.value,
          thought |-> captured]
    ELSE IF ~h.has_output_keys
    THEN [raised |-> TRUE, exc |-> Exc("AttributeError", "output_keys"),
          result |-> Unset, thought |-> UnsetThought]
    ELSE IF h.output_keys = <<>>
    THEN [raised |-> TRUE, exc |-> Exc("IndexError", "list index out of range"),
          result |-> Unset, thought |-> UnsetThought]
    ELSE LET result == IF output.has_key THEN output.value ELSE NONE
         IN  IF output.steps_kind = "malformed"
             THEN [raised |-> TRUE, exc |-> Exc("TypeError", "cannot unpack"),
                   result |-> result, thought |-> UnsetThought]
             ELSE IF output.steps # <<>>
             THEN [raised |-> FALSE, exc |-> NoExc, result |-> result,
                   thought |-> format_actions(output.steps)]
             ELSE [raised |-> FALSE, exc |-> NoExc, result |-> result,
                   thought |-> captured]

\* the failure let through as it is: a variant the properties of the
\* outcome must tell from wrap
wrap_reraise(exc) == exc

\* lines 108-109: raise ValueError(f"Error: {str(exc)}") from exc
wrap(exc) == Exc("ValueError", "Error: " \o exc.desc)

NoOutput == Plain("")

Raised(h, exc, chat_input, calls) ==
    [raised |-> TRUE, exc |-> wrap(exc), result |-> Unset,
     thought |-> UnsetThought, obj |-> h, chat_input |-> chat_input,
     calls |-> calls, output |-> NoOutput, cause |-> exc]

\* what the pipeline wrote to sys.stdout while the buffer was in place
Captured(calls) == [i \in 1..Len(calls) |-> calls[i].op]

get_result_and_thought(h0, message, env, pol) ==
    IF h0.has_verbose /\ env.toggle_fails
    THEN Raised(h0, Exc("ValueError", "verbose"), NoInput, <<>>)
    ELSE
    LET h1 == IF h0.has_verbose THEN [h0 EXCEPT !.verbose = TRUE] ELSE h0
    IN  IF HasMemory(h1) /\ ~h1.has_memory_key
        THEN Raised(h1, Exc("AttributeError", "memory_key"), NoInput, <<>>)
        ELSE
    LET memory_key == IF HasMemory(h1) THEN h1.memory_key ELSE ""
        chat_input == build_chat_input(h1, memory_key, message)
        h2 == IF h1.has_return_intermediate_steps
              THEN [h1 EXCEPT !.return_intermediate_steps = FALSE] ELSE h1
        fixed == fix_memory_inputs(h2, pol)
    IN  IF fixed.raised
        THEN Raised(h2, fixed.exc, chat_input, <<>>)
        ELSE
    LET h3 == fixed.obj
        inv == invoke(h3, env, chat_input)
    IN  IF inv.raised
        THEN Raised(h3, inv.exc, chat_input, inv.calls)
        ELSE
    LET norm == normalize(h3, inv.output, Captured(inv.calls))
    IN  IF norm.raised
        THEN [Raised(h3, norm.exc, chat_input, inv.calls)
                EXCEPT !.output = inv.output]
        ELSE [raised |-> FALSE, exc |-> NoExc, result |-> norm.result,
              thought |-> norm.thought, obj |-> h3, chat_input |-> chat_input,
              calls |-> inv.calls, output |-> inv.output, cause |-> NoExc]

(***************************************************************************)
(* Idle values: a specification leaves the variables of the other          *)
(* operations at these                                                     *)
(***************************************************************************)
NoTweakResult ==
    [raised |-> FALSE, exc |-> NoExc, graph |-> Description("top", <<>>),
     warned |-> {}]
NoHandle ==
    Handle(FALSE, "absent", FALSE, "", FALSE, {}, FALSE, FALSE, {}, FALSE, <<>>,
           FALSE, FALSE, <<>>, FALSE)
NoPolicy == [k \in Keys |-> NONE]
NoExecResult ==
    [res |-> Raised(NoHandle, NoExc, NoInput, <<>>), before |-> NoHandle]

TweakIdle ==
    /\ graph_data = Description("top", <<>>)
    /\ tweaks = NotADict
    /\ tweak_result = NoTweakResult
    /\ tweak_pc = "idle"
MemIdle ==
    /\ mem_applied = 0
    /\ mem_first = NoHandle
    /\ mem_raised = NoExc
HandleIdle ==
    /\ langchain_object = NoHandle
    /\ policy = NoPolicy
ExecIdle ==
    /\ exec_result = NoExecResult
    /\ exec_pc = "idle"

(***************************************************************************)
(* process_tweaks on every description and tweak map within the bounds     *)
(***************************************************************************)
ProcessTweaks ==
    /\ tweak_pc = "ready"
    /\ tweak_result' = process_tweaks(graph_data, tweaks)
    /\ tweak_pc' = "done"
    /\ UNCHANGED <<graph_data, tweaks, mem_vars, exec_vars, conc_vars, load_vars>>

(***************************************************************************)
(* fix_memory_inputs applied repeatedly to one handle                      *)
(***************************************************************************)
MemHandles ==
    {Handle(FALSE, m[1], m[2], m[3], n[1], n[2], n[3], n[4], n[5], k[1], k[2],
            FALSE, FALSE, <<>>, FALSE)
        : m \in MemoryShapes, n \in NameSources, k \in InputKeyShapes(MaxKeys)}

FixMemoryInputs ==
    /\ mem_applied < MaxApply
    /\ mem_raised = NoExc
    /\ LET r == fix_memory_inputs(langchain_object, policy)
       IN  /\ langchain_object' = r.obj
           /\ mem_raised' = r.exc
           /\ mem_first' = IF mem_applied = 0 THEN r.obj ELSE mem_first
    /\ mem_applied' = mem_applied + 1
    /\ UNCHANGED <<policy, tweak_vars, exec_vars, conc_vars, load_vars>>

(***************************************************************************)
(* get_result_and_thought on every handle and pipeline behaviour           *)
(***************************************************************************)
\* a handle has both toggles or neither
ExecHandles ==
    {Handle(f[1], m[1], m[2], m[3], n[1], n[2], n[3], n[4], n[5], k[1], k[2],
            f[1], o[1], o[2], f[2])
        : f \in BOOLEAN \X BOOLEAN, m \in MemoryShapes,
          n \in NameSources, k \in InputKeyShapes(MaxKeys),
          o \in OutputKeyShapes}

\* one call consults get_memory_key at most once, so the policies that
\* answer the same for every key give every answer it can get
ExecPolicies == {[k \in Keys |-> r] : r \in Keys \cup {NONE}}

Execute ==
    /\ exec_pc = "ready"
    /\ \E env \in Envs :
        LET r == get_result_and_thought(langchain_object, Message, env, policy)
        IN  /\ exec_result' = [res |-> r, before |-> langchain_object]
            /\ langchain_object' = r.obj
    /\ exec_pc' = "done"
    /\ UNCHANGED <<policy, mem_applied, mem_first, mem_raised, tweak_vars,
                   conc_vars, load_vars>>

(***************************************************************************)
(* Concurrent get_result_and_thought calls (lines 83-106).  sys.stdout is  *)
(* one process-wide reference: 0 is the original stream, p the StringIO of *)
(* invocation p.  contextlib.redirect_stdout saves the reference it finds  *)
(* on entry and puts that one back on exit.                                *)
(***************************************************************************)
Invocations == 1..NumInvocations
OrigStdout == 0

ConcIdle ==
    /\ sys_stdout = OrigStdout
    /\ old_targets = [p \in Invocations |-> OrigStdout]
    /\ output_buffer = [p \in Invocations |-> <<>>]
    /\ closed = [p \in Invocations |-> FALSE]
    /\ conc_pc = [p \in Invocations |-> "idle"]
    /\ prints = [p \in Invocations |-> 0]
    /\ thought = [p \in Invocations |-> <<>>]
    /\ conc_error = [p \in Invocations |-> FALSE]
    /\ orig_stream = <<>>

ConcUnchanged == UNCHANGED <<tweak_vars, mem_vars, exec_vars, load_vars>>

\* line 83: the StringIO is made, then redirect_stdout.__enter__ runs
EnterCapture(p) ==
    /\ conc_pc[p] = "start"
    /\ old_targets' = [old_targets EXCEPT ![p] = sys_stdout]
    /\ sys_stdout' = p
    /\ conc_pc' = [conc_pc EXCEPT ![p] = "in_call"]
    /\ UNCHANGED <<output_buffer, closed, prints, thought, conc_error,
                   orig_stream>>
    /\ ConcUnchanged

\* the pipeline of invocation p writes to whatever sys.stdout refers to now;
\* a write to a closed StringIO raises ValueError, which line 89 catches
\* during the call (run is tried) and line 108 during run
PipelinePrints(p) ==
    /\ conc_pc[p] \in {"in_call", "in_run"}
    /\ prints[p] < MaxPrints
    /\ prints' = [prints EXCEPT ![p] = @ + 1]
    /\ IF sys_stdout = OrigStdout
       THEN /\ orig_stream' = Append(orig_stream, p)
            /\ UNCHANGED <<output_buffer, conc_pc, conc_error>>
       ELSE IF closed[sys_stdout]
       THEN /\ conc_pc' = [conc_pc EXCEPT ![p] =
                              IF @ = "in_call" THEN "in_run" ELSE "exiting"]
            /\ conc_error' = [conc_error EXCEPT ![p] = (conc_pc[p] = "in_run")]
            /\ UNCHANGED <<output_buffer, orig_stream>>
       ELSE /\ output_buffer' =
                  [output_buffer EXCEPT ![sys_stdout] = Append(@, p)]
            /\ UNCHANGED <<orig_stream, conc_pc, conc_error>>
    /\ UNCHANGED <<sys_stdout, old_targets, closed, thought>>
    /\ ConcUnchanged

\* lines 88/92: the invocation returns its output
PipelineReturns(p) ==
    /\ conc_pc[p] \in {"in_call", "in_run"}
    /\ conc_pc' = [conc_pc EXCEPT ![p] = "returned"]
    /\ UNCHANGED <<sys_stdout, old_targets, output_buffer, closed, prints,
                   thought, conc_error, orig_stream>>
    /\ ConcUnchanged

\* line 106: thought = output_buffer.getvalue()
GetValue(p) ==
    /\ conc_pc[p] = "returned"
    /\ thought' = [thought EXCEPT ![p] = output_buffer[p]]
    /\ conc_pc' = [conc_pc EXCEPT ![p] = "exiting"]
    /\ UNCHANGED <<sys_stdout, old_targets, output_buffer, closed, prints,
                   conc_error, orig_stream>>
    /\ ConcUnchanged

\* leaving the with block: redirect_stdout.__exit__ puts the saved reference
\* back, then the StringIO is closed
ExitCapture(p) ==
    /\ conc_pc[p] = "exiting"
    /\ sys_stdout' = old_targets[p]
    /\ closed' = [closed EXCEPT ![p] = TRUE]
    /\ conc_pc' = [conc_pc EXCEPT ![p] = "done"]
    /\ UNCHANGED <<old_targets, output_buffer, prints, thought, conc_error,
                   orig_stream>>
    /\ ConcUnchanged

(***************************************************************************)
(* load_flow_from_json                                                     *)
(***************************************************************************)
\* the source: a path (to a file that is missing, holds no JSON, or holds
\* the flow), a dict (the flow), or anything else, such as a number.  The
\* flow may lack its 'data' and the data its 'edges'.
Flow(hd, gd, he) == [has_data |-> hd, data |-> gd, has_edges |-> he]
LoadNode(path) ==
    Node(TRUE, "str", "a", path,
         IF path = "ok" THEN [nm \in TweakNames |-> [value |-> OrigValue]]
         ELSE NoTemplate)
LoadNodeLists ==
    {<<>>, <<LoadNode("ok")>>, <<LoadNode("template_missing")>>,
     <<LoadNode("data_bad")>>,
     <<Node(FALSE, "missing", "", "ok", NoTemplate), LoadNode("ok")>>}
LoadGraphDatas ==
    {Description(s, nodes) : s \in {"top", "under_data"}, nodes \in LoadNodeLists}
    \cup {Description(s, <<>>) : s \in {"no_nodes", "data_bad", "not_dict"}}
Flows ==
    {Flow(FALSE, Description("top", <<>>), FALSE)}
    \cup {Flow(TRUE, gd, he) : gd \in LoadGraphDatas, he \in BOOLEAN}
Source(kind, file, flow) == [kind |-> kind, file |-> file, flow |-> flow]
NoFlow == Flow(FALSE, Description("top", <<>>), FALSE)
Sources ==
    {Source("other", "none", NoFlow), Source("path", "missing", NoFlow),
     Source("path", "bad_json", NoFlow)}
    \cup {Source("path", "ok", f) : f \in Flows}
    \cup {Source("dict", "none", f) : f \in Flows}

\* tweaks: None, a mapping, or something that is neither
NoTweaks == [isDict |-> FALSE, map |-> <<"None">>]
LoadTweaks ==
    {NoTweaks, NotADict}
    \cup {TweakDict([k \in {<<"a", "temperature">>} |-> v]) : v \in TweakValues}
    \cup {TweakDict([k \in {} |-> PyInt(0)])}

\* what Graph(nodes, edges) and graph.build() do: comp is "ok",
\* "graph_fails" or "build_fails", and handle is what build returns
Compilations == {"ok", "graph_fails", "build_fails"}
LoadHandles ==
    {Handle(hv, m[1], m[2], m[3], n[1], n[2], n[3], n[4], n[5], TRUE,
            <<"input">>, hv, TRUE, <<"text">>, TRUE)
        : hv \in BOOLEAN, m \in MemoryShapes,
          n \in {<<TRUE, {"input"}, FALSE, FALSE, {}>>,
                 <<FALSE, {}, TRUE, FALSE, {}>>}}
LoadPolicies == {NoPolicy, [k \in Keys |-> "history"]}

LoadRaised(exc, site, reached, gd) ==
    [raised |-> TRUE, exc |-> exc, site |-> site, compiler_reached |-> reached,
     returned |-> "nothing", graph_data |-> gd, obj |-> NoHandle]

\* lines 165-177: the toggles and fix_memory_inputs on the built handle
finish_build(h0, pol, gd) ==
    LET h1 == IF h0.has_verbose THEN [h0 EXCEPT !.verbose = TRUE] ELSE h0
        h2 == IF h1.has_return_intermediate_steps
              THEN [h1 EXCEPT !.return_intermediate_steps = FALSE] ELSE h1
        fixed == fix_memory_inputs(h2, pol)
    IN  IF fixed.raised
        THEN LoadRaised(fixed.exc, "fix_memory_inputs", TRUE, gd)
        ELSE [raised |-> FALSE, exc |-> NoExc, site |-> "none",
              compiler_reached |-> TRUE, returned |-> "handle",
              graph_data |-> gd, obj |-> fixed.obj]

\* lines 161-179, from the (tweaked) graph_data on
compile(gd, has_edges, build, comp, handle, pol) ==
    IF gd.shape = "not_dict"
    THEN LoadRaised(Exc("TypeError", "nodes"), "nodes", FALSE, gd)
    ELSE IF gd.shape # "top"
    THEN LoadRaised(Exc("KeyError", "nodes"), "nodes", FALSE, gd)
    ELSE IF ~has_edges
    THEN LoadRaised(Exc("KeyError", "edges"), "edges", FALSE, gd)
    ELSE IF comp = "graph_fails"
    THEN LoadRaised(Exc("Exception", "Graph"), "Graph", TRUE, gd)
    ELSE IF ~build
    THEN [raised |-> FALSE, exc |-> NoExc, site |-> "none",
          compiler_reached |-> TRUE, returned |-> "graph",
          graph_data |-> gd, obj |-> NoHandle]
    ELSE IF comp = "build_fails"
    THEN LoadRaised(Exc("Exception", "build"), "build", TRUE, gd)
    ELSE finish_build(handle, pol, gd)

\* lines 147-156: which sources are read, and what reading them gives
check_source(input) ==
    IF input.kind = "other"
    THEN [raised |-> TRUE, site |-> "source",
          exc |-> Exc("TypeError", "Input must be either a file path (str) or a JSON object (dict)")]
    ELSE IF input.kind = "path" /\ input.file = "missing"
    THEN [raised |-> TRUE, site |-> "open",
          exc |-> Exc("FileNotFoundError", "open")]
    ELSE IF input.kind = "path" /\ input.file = "bad_json"
    THEN [raised |-> TRUE, site |-> "json.load",
          exc |-> Exc("JSONDecodeError", "json.load")]
    ELSE [raised |-> FALSE, site |-> "none", exc |-> NoExc]

load_flow_from_json(input, tw, build, comp, handle, pol) ==
    LET src == check_source(input)
    IN  IF src.raised
        THEN LoadRaised(src.exc, src.site, FALSE, input.flow.data)
        ELSE IF ~input.flow.has_data
        THEN LoadRaised(Exc("KeyError", "data"), "data", FALSE, input.flow.data)
        ELSE IF tw = NoTweaks
        THEN compile(input.flow.data, input.flow.has_edges, build, comp,
                     handle, pol)
        ELSE LET t == process_tweaks(input.flow.data, tw)
             IN  IF t.raised
                 THEN LoadRaised(t.exc, "process_tweaks", FALSE, t.graph)
                 ELSE compile(t.graph, input.flow.has_edges, build, comp,
                              handle, pol)

NoLoadResult ==
    LoadRaised(NoExc, "none", FALSE, Description("top", <<>>))

LoadIdle ==
    /\ load_input = Source("other", "none", NoFlow)
    /\ load_tweaks = NoTweaks
    /\ load_build = FALSE
    /\ load_result = NoLoadResult
    /\ load_pc = "idle"

LoadFlowFromJson ==
    /\ load_pc = "ready"
    /\ \E comp \in Compilations, handle \in LoadHandles, pol \in LoadPolicies :
        load_result' = load_flow_from_json(load_input, load_tweaks, load_build,
                                           comp, handle, pol)
    /\ load_pc' = "done"
    /\ UNCHANGED <<load_input, load_tweaks, load_build, tweak_vars, mem_vars,
                   exec_vars, conc_vars>>

(***************************************************************************)
(* Specifications                                                          *)
(***************************************************************************)
InitTweaks ==
    /\ graph_data \in GraphDatas(MaxNodes)
    /\ tweaks \in TweakMaps(MaxTweaks) \cup {NotADict}
    /\ tweak_result = NoTweakResult
    /\ tweak_pc = "ready"
    /\ HandleIdle /\ MemIdle /\ ExecIdle /\ ConcIdle /\ LoadIdle
NextTweaks == ProcessTweaks
SpecTweaks == InitTweaks /\ [][NextTweaks]_vars

InitMem ==
    /\ langchain_object \in MemHandles
    /\ policy \in Policies
    /\ mem_applied = 0
    /\ mem_first = langchain_object
    /\ mem_raised = NoExc
    /\ TweakIdle /\ ExecIdle /\ ConcIdle /\ LoadIdle
NextMem == FixMemoryInputs
SpecMem == InitMem /\ [][NextMem]_vars

InitExec ==
    /\ langchain_object \in ExecHandles
    /\ policy \in ExecPolicies
    /\ exec_result = NoExecResult
    /\ exec_pc = "ready"
    /\ TweakIdle /\ MemIdle /\ ConcIdle /\ LoadIdle
NextExec == Execute
SpecExec == InitExec /\ [][NextExec]_vars

InitConc ==
    /\ sys_stdout = OrigStdout
    /\ old_targets = [p \in Invocations |-> OrigStdout]
    /\ output_buffer = [p \in Invocations |-> <<>>]
    /\ closed = [p \in Invocations |-> FALSE]
    /\ conc_pc = [p \in Invocations |-> "start"]
    /\ prints = [p \in Invocations |-> 0]
    /\ thought = [p \in Invocations |-> <<>>]
    /\ conc_error = [p \in Invocations |-> FALSE]
    /\ orig_stream = <<>>
    /\ TweakIdle /\ HandleIdle /\ MemIdle /\ ExecIdle /\ LoadIdle
NextConc ==
    \E p \in Invocations :
        \/ EnterCapture(p)
        \/ PipelinePrints(p)
        \/ PipelineReturns(p)
        \/ GetValue(p)
        \/ ExitCapture(p)
SpecConc == InitConc /\ [][NextConc]_vars

InitLoad ==
    /\ load_input \in Sources
    /\ load_tweaks \in LoadTweaks
    /\ load_build \in BOOLEAN
    /\ load_result = NoLoadResult
    /\ load_pc = "ready"
    /\ TweakIdle /\ HandleIdle /\ MemIdle /\ ExecIdle /\ ConcIdle
NextLoad == LoadFlowFromJson
SpecLoad == InitLoad /\ [][NextLoad]_vars

(***************************************************************************)
(* Properties                                                              *)
(***************************************************************************)
\* C1: after process_tweaks accepted a description and a tweak map, every
\* (node id, parameter name, value) of the map whose node exists and whose
\* parameter is a key of the node's template has that template entry's
\* value equal to the tweak's value, whatever the value (0, False, "" and []
\* included).
C1_EveryTweakApplied ==
    (tweak_pc = "done" /\ ~tweak_result.raised) =>
        \A i \in 1..Len(graph_data.nodes) :
            LET node == graph_data.nodes[i]
            IN  (WellShaped(node) /\ node.id \in DOMAIN tweaks.map) =>
                    \A nm \in DOMAIN tweaks.map[node.id] \cap DOMAIN node.template :
                        tweak_result.graph.nodes[i].template[nm].value
                            = tweaks.map[node.id][nm]

\* C9: for a node list mixing well-shaped and ill-shaped nodes and a tweak
\* map whose entries are mappings, process_tweaks does not raise, leaves
\* every ill-shaped node as it was, and applies to every well-shaped node
\* the pairs apply_tweaks applies (truthy name and value, name in template).
C9_LocalRecovery ==
    (/\ tweak_pc = "done"
     /\ tweaks.isDict
     /\ ~validate_input(graph_data, tweaks).raised) =>
        /\ ~tweak_result.raised
        /\ \A i \in 1..Len(graph_data.nodes) :
            LET node == graph_data.nodes[i]
                out == tweak_result.graph.nodes[i]
            IN  /\ ~WellShaped(node) => out = node
                /\ (WellShaped(node) /\ node.id \in DOMAIN tweaks.map) =>
                    \A nm \in DOMAIN tweaks.map[node.id] \cap DOMAIN node.template :
                        Truthy(tweaks.map[node.id][nm]) =>
                            out.template[nm].value = tweaks.map[node.id][nm]

\* C5: fix_memory_inputs is idempotent: the handle after two consecutive
\* applications is the handle after one.
C5_Idempotent ==
    mem_applied >= 2 => langchain_object = mem_first

\* C6: fix_memory_inputs never raises, whatever capabilities the handle has
\* or lacks.
C6_NeverRaises ==
    mem_raised = NoExc

\* the memory key get_result_and_thought reads at lines 64-66
MemoryKeyRead(h) == IF HasMemory(h) THEN h.memory_key ELSE ""

\* the positions of the declared input keys that pass the exclusion
Passing(h) ==
    {i \in 1..Len(h.input_keys) :
        h.input_keys[i] \notin {MemoryKeyRead(h), "chat_history"}}

Invoked == exec_pc = "done" /\ exec_result.res.calls # <<>>

\* C2 (as stated): after a ValueError of the call, run is invoked exactly
\* once with the same input, and when run succeeds its result is returned;
\* run is not invoked after a successful call or another kind of error.
C2_FallbackAsStated ==
    Invoked =>
        LET r == exec_result.res
            calls == r.calls
        IN  /\ calls[1].end = "ValueError" =>
                /\ Len(calls) = 2
                /\ calls[2].op = "run"
                /\ calls[2].input = calls[1].input
                /\ calls[2].end = "ok" => (~r.raised /\ r.result = "run_value")
            /\ calls[1].end # "ValueError" => Len(calls) = 1

\* C2 (amended): after a ValueError of the call on a handle that has run,
\* run is invoked exactly once with the same input; when run succeeds the
\* first error is not propagated: the value read from run's output is
\* returned (the output itself, its entry under the first output key, or
\* None when it has no such entry), or the failure to read that output is
\* raised.  On a handle without run the call's ValueError leads to one
\* raised error and no second invocation.  run is not invoked after a
\* successful call or another kind of error.
C2_Fallback ==
    Invoked =>
        LET r == exec_result.res
            calls == r.calls
        IN  /\ calls[1].op = "call"
            /\ (calls[1].end = "ValueError" /\ r.obj.has_run) =>
                /\ Len(calls) = 2
                /\ calls[2].op = "run"
                /\ calls[2].input = calls[1].input
                /\ calls[2].end = "ok" =>
                    /\ r.output.value = "run_value"
                    /\ IF r.raised
                       THEN /\ r.output.is_dict
                            /\ r.cause.type \in {"AttributeError", "IndexError",
                                                 "TypeError"}
                            /\ r.cause.desc \notin {"call failed", "run failed"}
                       ELSE r.result = IF ~r.output.is_dict \/ r.output.has_key
                                       THEN "run_value" ELSE NONE
            /\ (calls[1].end = "ValueError" /\ ~r.obj.has_run) =>
                (Len(calls) = 1 /\ r.raised)
            /\ calls[1].end # "ValueError" => Len(calls) = 1

C2_Witness ==
    /\ Invoked
    /\ Len(exec_result.res.calls) = 2
    /\ exec_result.res.calls[1].end = "ValueError"
    /\ exec_result.res.calls[2].end = "ok"
    /\ ~exec_result.res.raised
    /\ exec_result.res.result = "run_value"

\* C3: a call of get_result_and_thought either returns a result and a
\* thought, or raises a ValueError whose text is "Error: " followed by the
\* text of the failure that stopped it, with nothing returned.
C3_OneOutcome ==
    exec_pc = "done" =>
        LET r == exec_result.res
        IN  \/ /\ ~r.raised
               /\ r.exc = NoExc
               /\ r.result # Unset
               /\ r.thought # UnsetThought
            \/ /\ r.raised
               /\ r.exc.type = "ValueError"
               /\ r.exc.desc = "Error: " \o r.cause.desc
               /\ r.cause # NoExc
               /\ r.result = Unset
               /\ r.thought = UnsetThought

C3_Witness ==
    /\ exec_pc = "done"
    /\ exec_result.res.raised
    /\ exec_result.res.cause.type = "TypeError"
    /\ exec_result.res.exc = Exc("ValueError", "Error: cannot unpack")

\* C4 (as stated): with declared input keys the input handed over is
\* {k: message}, k being the single declared key that is neither the memory
\* key nor "chat_history"; without declared input keys it is the message.
C4_InputAsStated ==
    Invoked =>
        LET before == exec_result.before
            input == exec_result.res.calls[1].input
        IN  IF before.has_input_keys
            THEN /\ input.kind = "dict"
                 /\ input.value = Message
                 /\ {before.input_keys[i] : i \in Passing(before)} = {input.key}
            ELSE input = [kind |-> "str", key |-> "", value |-> Message]

\* C4 (amended): with declared input keys of which at least one is neither
\* the memory key nor "chat_history", the input handed over is {k: message},
\* k being the last such key in declared order; when no declared key passes,
\* None is handed over; without declared input keys, the message.
C4_Input ==
    Invoked =>
        LET before == exec_result.before
            input == exec_result.res.calls[1].input
            pass == Passing(before)
        IN  IF ~before.has_input_keys
            THEN input = [kind |-> "str", key |-> "", value |-> Message]
            ELSE IF pass = {}
            THEN input = NoInput
            ELSE /\ input.kind = "dict"
                 /\ input.value = Message
                 /\ \E i \in pass :
                        /\ \A j \in pass : j <= i
                        /\ input.key = before.input_keys[i]

C4_Witness ==
    /\ Invoked
    /\ Cardinality(Passing(exec_result.before)) >= 2
    /\ exec_result.res.calls[1].input.kind = "dict"
    /\ exec_result.res.calls[1].input.key
         = exec_result.before.input_keys[Len(exec_result.before.input_keys)]

\* C10: the key the message is placed under is never the memory key the
\* handle has when it is invoked, after fix_memory_inputs.
C10_MessageKeyIsNotMemoryKey ==
    (/\ Invoked
     /\ exec_result.res.chat_input.kind = "dict"
     /\ HasMemory(exec_result.res.obj)) =>
        exec_result.res.chat_input.key # exec_result.res.obj.memory_key

\* C7: the thought an invocation captured holds only what its own pipeline
\* wrote, and once every invocation has left its capture scope sys.stdout
\* is the original stream again.
C7_ScopedCapture ==
    /\ \A p \in Invocations :
        (conc_pc[p] = "done" /\ ~conc_error[p]) =>
            \A i \in 1..Len(thought[p]) : thought[p][i] = p
    /\ (\A p \in Invocations : conc_pc[p] = "done") => sys_stdout = OrigStdout

\* C8: a call of load_flow_from_json whose source is neither a path nor a
\* dict, or whose tweaks are given and no mapping, raises without reaching
\* Graph(nodes, edges); the rejection of the source, and that of the tweaks
\* once the flow's data is read, is an invalid-input error.
InvalidInput == {"TypeError", "ValueError"}
C8_RejectedBeforeCompiler ==
    load_pc = "done" =>
        /\ (load_input.kind = "other" \/ load_tweaks = NotADict) =>
            (load_result.raised /\ ~load_result.compiler_reached)
        /\ load_input.kind = "other" =>
            (load_result.site = "source" /\ load_result.exc.type \in InvalidInput)
        /\ (/\ load_tweaks = NotADict
            /\ ~check_source(load_input).raised
            /\ load_input.flow.has_data) =>
            (/\ load_result.site = "process_tweaks"
             /\ load_result.exc.type \in InvalidInput)

C8_Witness ==
    /\ load_pc = "done"
    /\ load_input.kind = "dict"
    /\ load_input.flow.has_data
    /\ load_input.flow.has_edges
    /\ load_input.flow.data = Description("top", <<LoadNode("ok")>>)
    /\ load_tweaks = NotADict
    /\ load_result.raised
    /\ load_result.exc.type = "ValueError"
    /\ ~load_result.compiler_reached

=============================================================================
